---- MODULE Spec2Model ----
(***************************************************************************)
(* A model of js/tictactoe.js: the N x N Tic-Tac-Toe game whose victory    *)
(* conditions are kept as running sums of the "victory lines".             *)
(*                                                                         *)
(* The page's global variables are the state.  The three entry points are  *)
(* the call of initTicTacToe, the "drop" listener of every board square    *)
(* and the "click" listener of the Reset button.  JavaScript runs each of  *)
(* them to completion, so each is one atomic action.                       *)
(*                                                                         *)
(* Every function of the source is an operator from a state record (the    *)
(* globals before the call) to a state record (the globals after it), so   *)
(* that a handler that calls several functions in sequence is their        *)
(* composition.                                                            *)
(***************************************************************************)
EXTENDS Integers, Sequences, FiniteSets, TLC

\* Largest grid size passed to initTicTacToe.
MaxGridSize == 3

\* Player Properties
PLAYER_ONE == 1
PLAYER_TWO == -1
PLAYER_ONE_NAME == "Player 1"
PLAYER_TWO_NAME == "Player 2"

\* The value of a global that has been declared but not assigned yet.
undefined == "undefined"

\* The grid sizes initTicTacToe is called with: the playable ones, and
\* zero and a negative one, which the function does not tell apart.
GridSizeArgs == (0 - 1)..MaxGridSize

\* The ids of the two draggable images of the control panel; the id is the
\* "Text" data of a drag.
DragIds == {"player-1", "player-2"}

VARIABLES
    initialized,        \* the game has been initialized
    GRID_SIZE,
    NUMBER_OF_SQUARES,
    squares,            \* <<x, y>> |-> the child nodes of the square at (x, y)
    lineSums,           \* the sums of all "victory" lines, indexed from 0
    message,            \* the current message to output
    gameOver,
    victoryFlag,
    currentPlayer,
    turnCount

vars == <<initialized, GRID_SIZE, NUMBER_OF_SQUARES, squares, lineSums,
          message, gameOver, victoryFlag, currentPlayer, turnCount>>

\* The globals as one record.
State ==
    [initialized |-> initialized, GRID_SIZE |-> GRID_SIZE,
     NUMBER_OF_SQUARES |-> NUMBER_OF_SQUARES, squares |-> squares,
     lineSums |-> lineSums, message |-> message, gameOver |-> gameOver,
     victoryFlag |-> victoryFlag, currentPlayer |-> currentPlayer,
     turnCount |-> turnCount]

\* The globals become the record s.
Becomes(s) ==
    /\ message' = s.message
    /\ turnCount' = s.turnCount
    /\ currentPlayer' = s.currentPlayer
    /\ gameOver' = s.gameOver
    /\ victoryFlag' = s.victoryFlag
    /\ initialized' = s.initialized
    /\ GRID_SIZE' = s.GRID_SIZE
    /\ NUMBER_OF_SQUARES' = s.NUMBER_OF_SQUARES
    /\ squares' = s.squares
    /\ lineSums' = s.lineSums

\* Math.abs
abs(n) == IF n < 0 THEN 0 - n ELSE n

\* The player a dragged image stands for.
pieceOf(data) == IF data = "player-1" THEN PLAYER_ONE ELSE PLAYER_TWO

getPlayerName(player) ==
    IF player = PLAYER_ONE THEN PLAYER_ONE_NAME ELSE PLAYER_TWO_NAME

\* The coordinates of the squares createGameBoard builds.
Cells(n) == (0..(n - 1)) \X (0..(n - 1))

\* The board of GRID_SIZE x GRID_SIZE squares, none with a child node.
createGameBoard(s) ==
    IF ~s.initialized
    THEN [s EXCEPT !.squares = [c \in Cells(s.GRID_SIZE) |-> <<>>]]
    ELSE s

\* A plausible slip: the loop over the line sums stops one short.
resetGameShortSums(s) ==
    [s EXCEPT !.gameOver = FALSE,
              !.victoryFlag = FALSE,
              !.turnCount = 0,
              !.currentPlayer = PLAYER_ONE,
              !.message = getPlayerName(PLAYER_ONE) \o " starts the game",
              !.lineSums = [i \in 0..((s.GRID_SIZE * 2) + 2 - 2) |-> 0],
              !.squares = [c \in DOMAIN s.squares |-> <<>>]]

\* A plausible slip: the line sums are not reset.
resetGameKeepSums(s) ==
    [s EXCEPT !.gameOver = FALSE,
              !.victoryFlag = FALSE,
              !.turnCount = 0,
              !.currentPlayer = PLAYER_ONE,
              !.message = getPlayerName(PLAYER_ONE) \o " starts the game",
              !.lineSums = IF s.initialized THEN @
                           ELSE [i \in 0..((s.GRID_SIZE * 2) + 2 - 1) |-> 0],
              !.squares = [c \in DOMAIN s.squares |-> <<>>]]

\* A plausible slip: the turn counter is not reset.
resetGameKeepTurnCount(s) ==
    [s EXCEPT !.gameOver = FALSE,
              !.victoryFlag = FALSE,
              !.turnCount = IF s.initialized THEN @ ELSE 0,
              !.currentPlayer = PLAYER_ONE,
              !.message = getPlayerName(PLAYER_ONE) \o " starts the game",
              !.lineSums = [i \in 0..((s.GRID_SIZE * 2) + 2 - 1) |-> 0],
              !.squares = [c \in DOMAIN s.squares |-> <<>>]]

\* Resets the game to a clean, starting state: the loop "i = 0; i <
\* GRID_SIZE * 2 + 2" pushes the sums of index 0 .. 2 * GRID_SIZE + 1, and
\* every square loses all its child nodes.
resetGame(s) ==
    [s EXCEPT !.gameOver = FALSE,
              !.victoryFlag = FALSE,
              !.turnCount = 0,
              !.currentPlayer = PLAYER_ONE,
              !.message = getPlayerName(PLAYER_ONE) \o " starts the game",
              !.lineSums = [i \in 0..((s.GRID_SIZE * 2) + 2 - 1) |-> 0],
              !.squares = [c \in DOMAIN s.squares |-> <<>>]]

\* A plausible slip: the test of "initialized" is missing.
initTicTacToeNoGuard(s, gridSize) ==
    LET sized == [s EXCEPT !.GRID_SIZE = gridSize,
                           !.NUMBER_OF_SQUARES = gridSize * gridSize]
        reset == resetGame(createGameBoard(sized))
    IN  [reset EXCEPT !.initialized = TRUE]

\* gridSize is an integer, on which parseInt(gridSize, 10) is the identity.
initTicTacToe(s, gridSize) ==
    IF ~s.initialized
    THEN LET sized == [s EXCEPT !.GRID_SIZE = gridSize,
                                !.NUMBER_OF_SQUARES = gridSize * gridSize]
             reset == resetGame(createGameBoard(sized))
         IN  [reset EXCEPT !.initialized = TRUE]
    ELSE s

\* The child nodes of a DOM object: those of a square, none for an image.
childNodes(s, object) ==
    IF object.tagName = "DIV" THEN s.squares[<<object.x, object.y>>] ELSE <<>>

\* A plausible slip: only the image itself counts as occupied.
isOccupiedImgOnly(s, object) == object.tagName = "IMG"

isOccupied(s, object) ==
    object.tagName = "IMG" \/ Len(childNodes(s, object)) > 0

\* A plausible slip: the victory lines of the diagonals are forgotten.
updateVictoryConditionsNoDiagonals(s, x, y, player) ==
    LET n == s.GRID_SIZE
        sums == [s.lineSums EXCEPT ![x] = @ + player, ![n + y] = @ + player]
    IN  [s EXCEPT !.lineSums = sums,
                  !.victoryFlag = (abs(sums[x]) = n \/ abs(sums[n + y]) = n)]

\* A plausible slip: the row sum is indexed without the offset GRID_SIZE.
updateVictoryConditionsRowIndex(s, x, y, player) ==
    LET n == s.GRID_SIZE
        col == [s.lineSums EXCEPT ![x] = @ + player]
        row == [col EXCEPT ![y] = @ + player]
        flag1 == (abs(row[x]) = n \/ abs(row[y]) = n)
        onNeg == ~flag1 /\ x = y
        neg == IF onNeg THEN [row EXCEPT ![n * 2] = @ + player] ELSE row
        flag2 == IF onNeg THEN abs(neg[n * 2]) = n ELSE flag1
        onPos == ~flag2 /\ abs(x - (n - 1)) = y
        pos == IF onPos THEN [neg EXCEPT ![n * 2 + 1] = @ + player] ELSE neg
        flag3 == IF onPos THEN abs(pos[n * 2 + 1]) = n ELSE flag2
    IN  [s EXCEPT !.lineSums = pos, !.victoryFlag = flag3]

\* A plausible slip: every piece counts +1, whoever placed it.
updateVictoryConditionsUnsigned(s, x, y, player) ==
    LET n == s.GRID_SIZE
        col == [s.lineSums EXCEPT ![x] = @ + 1]
        row == [col EXCEPT ![n + y] = @ + 1]
        flag1 == (abs(row[x]) = n \/ abs(row[n + y]) = n)
        onNeg == ~flag1 /\ x = y
        neg == IF onNeg THEN [row EXCEPT ![n * 2] = @ + 1] ELSE row
        flag2 == IF onNeg THEN abs(neg[n * 2]) = n ELSE flag1
        onPos == ~flag2 /\ abs(x - (n - 1)) = y
        pos == IF onPos THEN [neg EXCEPT ![n * 2 + 1] = @ + 1] ELSE neg
        flag3 == IF onPos THEN abs(pos[n * 2 + 1]) = n ELSE flag2
    IN  [s EXCEPT !.lineSums = pos, !.victoryFlag = flag3]

\* A plausible slip: the positive diagonal is tested against GRID_SIZE
\* instead of GRID_SIZE - 1.
updateVictoryConditionsPosDiagonalOff(s, x, y, player) ==
    LET n == s.GRID_SIZE
        col == [s.lineSums EXCEPT ![x] = @ + player]
        row == [col EXCEPT ![n + y] = @ + player]
        flag1 == (abs(row[x]) = n \/ abs(row[n + y]) = n)
        onNeg == ~flag1 /\ x = y
        neg == IF onNeg THEN [row EXCEPT ![n * 2] = @ + player] ELSE row
        flag2 == IF onNeg THEN abs(neg[n * 2]) = n ELSE flag1
        onPos == ~flag2 /\ abs(x - n) = y
        pos == IF onPos THEN [neg EXCEPT ![n * 2 + 1] = @ + player] ELSE neg
        flag3 == IF onPos THEN abs(pos[n * 2 + 1]) = n ELSE flag2
    IN  [s EXCEPT !.lineSums = pos, !.victoryFlag = flag3]

updateVictoryConditions(s, x, y, player) ==
    LET n == s.GRID_SIZE
        \* Add the player value to the vertical & horizontal sums
        col == [s.lineSums EXCEPT ![x] = @ + player]
        row == [col EXCEPT ![n + y] = @ + player]
        flag1 == (abs(row[x]) = n \/ abs(row[n + y]) = n)
        \* Check if the player is on the negative diagonal
        onNeg == ~flag1 /\ x = y
        neg == IF onNeg THEN [row EXCEPT ![n * 2] = @ + player] ELSE row
        flag2 == IF onNeg THEN abs(neg[n * 2]) = n ELSE flag1
        \* Check if the player is on the positive diagonal
        onPos == ~flag2 /\ abs(x - (n - 1)) = y
        pos == IF onPos THEN [neg EXCEPT ![n * 2 + 1] = @ + player] ELSE neg
        flag3 == IF onPos THEN abs(pos[n * 2 + 1]) = n ELSE flag2
    IN  [s EXCEPT !.lineSums = pos, !.victoryFlag = flag3]

\* The clone of the dragged image becomes the last child of the target.
takeTurn(s, e) ==
    LET x == e.target.x
        y == e.target.y
        piece == pieceOf(e.data)
        placed == [s EXCEPT !.squares[<<x, y>>] = Append(@, e.data)]
    IN  updateVictoryConditions(placed, x, y, piece)

\* A plausible slip: the draw is tested before the victory.
endTurnTieFirst(s) ==
    LET count == s.turnCount + 1
    IN  IF count >= s.NUMBER_OF_SQUARES
        THEN [s EXCEPT !.turnCount = count, !.gameOver = TRUE,
                       !.message = "Tie game... you both lose!"]
        ELSE IF s.victoryFlag
        THEN [s EXCEPT !.turnCount = count, !.gameOver = TRUE,
                       !.message = getPlayerName(s.currentPlayer) \o " wins!"]
        ELSE LET next == IF s.currentPlayer = PLAYER_ONE
                         THEN PLAYER_TWO ELSE PLAYER_ONE
             IN  [s EXCEPT !.turnCount = count, !.currentPlayer = next,
                           !.message = getPlayerName(next) \o "'s turn"]

\* A plausible slip: the turn never passes to the other player.
endTurnSamePlayer(s) ==
    LET count == s.turnCount + 1
    IN  IF s.victoryFlag
        THEN [s EXCEPT !.turnCount = count, !.gameOver = TRUE,
                       !.message = getPlayerName(s.currentPlayer) \o " wins!"]
        ELSE IF count >= s.NUMBER_OF_SQUARES
        THEN [s EXCEPT !.turnCount = count, !.gameOver = TRUE,
                       !.message = "Tie game... you both lose!"]
        ELSE [s EXCEPT !.turnCount = count,
                       !.message = getPlayerName(s.currentPlayer) \o "'s turn"]

\* A plausible slip: a victory is announced but the game is not ended.
endTurnWinNotOver(s) ==
    LET count == s.turnCount + 1
    IN  IF s.victoryFlag
        THEN [s EXCEPT !.turnCount = count,
                       !.message = getPlayerName(s.currentPlayer) \o " wins!"]
        ELSE IF count >= s.NUMBER_OF_SQUARES
        THEN [s EXCEPT !.turnCount = count, !.gameOver = TRUE,
                       !.message = "Tie game... you both lose!"]
        ELSE LET next == IF s.currentPlayer = PLAYER_ONE
                         THEN PLAYER_TWO ELSE PLAYER_ONE
             IN  [s EXCEPT !.turnCount = count, !.currentPlayer = next,
                           !.message = getPlayerName(next) \o "'s turn"]

\* A plausible slip: the draw is tested with > instead of >=.
endTurnTieOffByOne(s) ==
    LET count == s.turnCount + 1
    IN  IF s.victoryFlag
        THEN [s EXCEPT !.turnCount = count, !.gameOver = TRUE,
                       !.message = getPlayerName(s.currentPlayer) \o " wins!"]
        ELSE IF count > s.NUMBER_OF_SQUARES
        THEN [s EXCEPT !.turnCount = count, !.gameOver = TRUE,
                       !.message = "Tie game... you both lose!"]
        ELSE LET next == IF s.currentPlayer = PLAYER_ONE
                         THEN PLAYER_TWO ELSE PLAYER_ONE
             IN  [s EXCEPT !.turnCount = count, !.currentPlayer = next,
                           !.message = getPlayerName(next) \o "'s turn"]

endTurn(s) ==
    LET count == s.turnCount + 1
    IN  IF s.victoryFlag
        THEN [s EXCEPT !.turnCount = count, !.gameOver = TRUE,
                       !.message = getPlayerName(s.currentPlayer) \o " wins!"]
        ELSE IF count >= s.NUMBER_OF_SQUARES
        THEN [s EXCEPT !.turnCount = count, !.gameOver = TRUE,
                       !.message = "Tie game... you both lose!"]
        ELSE LET next == IF s.currentPlayer = PLAYER_ONE
                         THEN PLAYER_TWO ELSE PLAYER_ONE
             IN  [s EXCEPT !.turnCount = count, !.currentPlayer = next,
                           !.message = getPlayerName(next) \o "'s turn"]

\* A plausible slip: the game being over is not part of the test.
legalTurnIgnoresGameOver(s, e) ==
    pieceOf(e.data) = s.currentPlayer /\ ~isOccupied(s, e.target)

\* A plausible slip: whose turn it is is not part of the test.
legalTurnAnyPlayer(s, e) ==
    ~s.gameOver /\ ~isOccupied(s, e.target)

\* The game is still ongoing, the right player is playing and the target
\* is free.
legalTurn(s, e) ==
    ~s.gameOver /\ pieceOf(e.data) = s.currentPlayer /\ ~isOccupied(s, e.target)

\* A plausible slip: the occupied square is reported before the wrong player.
rejectionMessageOccupiedFirst(s, e) ==
    IF s.gameOver
    THEN "The game is already over!"
    ELSE IF isOccupied(s, e.target)
    THEN "That spot is already taken!"
    ELSE IF pieceOf(e.data) # s.currentPlayer
    THEN "HEY! LISTEN! It's " \o getPlayerName(s.currentPlayer) \o "'s turn!"
    ELSE s.message

\* The informative message of a turn that could not be taken.
rejectionMessage(s, e) ==
    IF s.gameOver
    THEN "The game is already over!"
    ELSE IF pieceOf(e.data) # s.currentPlayer
    THEN "HEY! LISTEN! It's " \o getPlayerName(s.currentPlayer) \o "'s turn!"
    ELSE IF isOccupied(s, e.target)
    THEN "That spot is already taken!"
    ELSE s.message

\* A plausible slip: a turn that could not be taken is counted all the same.
dropCountsRejected(s, e) ==
    IF legalTurn(s, e)
    THEN endTurn(takeTurn(s, e))
    ELSE [s EXCEPT !.message = rejectionMessage(s, e),
                   !.turnCount = @ + 1]

drop(s, e) ==
    IF legalTurn(s, e)
    THEN endTurn(takeTurn(s, e))
    ELSE [s EXCEPT !.message = rejectionMessage(s, e)]

\* The drop events the page can deliver: either player's image, dropped on
\* a square or on the image a square already holds.
DropEvents ==
    {e \in [data : DragIds,
            target : [tagName : {"DIV", "IMG"},
                      x : 0..(GRID_SIZE - 1), y : 0..(GRID_SIZE - 1)]] :
        e.target.tagName = "IMG" => squares[<<e.target.x, e.target.y>>] # <<>>}

Init ==
    /\ initialized = FALSE
    /\ GRID_SIZE = undefined
    /\ NUMBER_OF_SQUARES = undefined
    /\ squares = undefined
    /\ lineSums = undefined
    /\ message = undefined
    /\ gameOver = undefined
    /\ victoryFlag = undefined
    /\ currentPlayer = undefined
    /\ turnCount = undefined

\* The page calls initTicTacToe.
InitCall(gridSize) == Becomes(initTicTacToe(State, gridSize))

\* A piece is dropped on the board.
DropEvent(e) == Becomes(drop(State, e))

\* The Reset button is clicked.
ResetClick ==
    /\ initialized
    /\ Becomes(resetGame(State))

Next ==
    \/ \E gridSize \in GridSizeArgs : InitCall(gridSize)
    \/ initialized /\ \E e \in DropEvents : DropEvent(e)
    \/ ResetClick

Spec == Init /\ [][Next]_vars

\* A move that is taken: the branch of drop that calls takeTurn and endTurn.
\* (The globals after the call are computed once, as r.)
AcceptedMove ==
    /\ initialized
    /\ \E e \in DropEvents :
           /\ legalTurn(State, e)
           /\ \E r \in {drop(State, e)} : Becomes(r)

\* The globals as the script's declarations leave them.
Declared ==
    [initialized |-> FALSE, GRID_SIZE |-> undefined,
     NUMBER_OF_SQUARES |-> undefined, squares |-> undefined,
     lineSums |-> undefined, message |-> undefined, gameOver |-> undefined,
     victoryFlag |-> undefined, currentPlayer |-> undefined,
     turnCount |-> undefined]

\* The page has called initTicTacToe, with any of the grid sizes.
Constructed ==
    \E gridSize \in GridSizeArgs :
        LET s == initTicTacToe(Declared, gridSize)
        IN  /\ initialized = s.initialized
            /\ GRID_SIZE = s.GRID_SIZE
            /\ NUMBER_OF_SQUARES = s.NUMBER_OF_SQUARES
            /\ squares = s.squares
            /\ lineSums = s.lineSums
            /\ message = s.message
            /\ gameOver = s.gameOver
            /\ victoryFlag = s.victoryFlag
            /\ currentPlayer = s.currentPlayer
            /\ turnCount = s.turnCount

\* The game without the Reset button: pieces are dropped, nothing else.
NextNoReset == initialized /\ \E e \in DropEvents : DropEvent(e)

\* A game that has been set up, is never reset, and in which the players
\* keep making moves that can be taken, whatever refused attempts they make
\* in between.
FairPlaySpec == Constructed /\ [][NextNoReset]_vars /\ WF_vars(AcceptedMove)

(***************************************************************************)
(* What the board shows, read from the squares alone (never from the line  *)
(* sums), for stating the properties.                                      *)
(***************************************************************************)

\* The square an event is aimed at.
TargetCell(e) == <<e.target.x, e.target.y>>

\* The square c holds pieces, and only pieces of player p.
OccupiedBy(sq, c, p) ==
    sq[c] # <<>> /\ \A i \in DOMAIN sq[c] : pieceOf(sq[c][i]) = p

Column(n, x) == {<<x, j>> : j \in 0..(n - 1)}
Row(n, y) == {<<i, y>> : i \in 0..(n - 1)}
MainDiagonal(n) == {<<i, i>> : i \in 0..(n - 1)}
AntiDiagonal(n) == {<<i, (n - 1) - i>> : i \in 0..(n - 1)}

\* The victory lines that pass through the square (x, y).
LinesThrough(n, x, y) ==
    {Column(n, x), Row(n, y)}
        \cup (IF x = y THEN {MainDiagonal(n)} ELSE {})
        \cup (IF x + y = n - 1 THEN {AntiDiagonal(n)} ELSE {})

\* Player p holds every square of some line through the target of e.
CompletesLine(sq, e, p) ==
    \E line \in LinesThrough(GRID_SIZE, e.target.x, e.target.y) :
        \A c \in line : OccupiedBy(sq, c, p)

\* Some row or column is held by player p alone.
RowOrColumnHeldBy(sq, p) ==
    \E k \in 0..(GRID_SIZE - 1) :
        \/ \A c \in Column(GRID_SIZE, k) : OccupiedBy(sq, c, p)
        \/ \A c \in Row(GRID_SIZE, k) : OccupiedBy(sq, c, p)

\* The step puts the piece of e on its target square and touches no other.
Placed(e) == squares' = [squares EXCEPT ![TargetCell(e)] = Append(@, e.data)]

\* The three conditions of a move that may be taken, read from the state.
MayMove(e) ==
    /\ gameOver = FALSE
    /\ pieceOf(e.data) = currentPlayer
    /\ squares[TargetCell(e)] = <<>>

Full(sq) == \A c \in DOMAIN sq : sq[c] # <<>>

Opponent(p) == 0 - p

(***************************************************************************)
(* C1. On a grid of size N >= 1 and from a state where the game is not     *)
(* over, a move that is taken by player p at (x, y) ends the game as a win *)
(* for p exactly when, with the piece placed, column x, row y, the main    *)
(* diagonal (if x = y) or the anti-diagonal (if x + y = N - 1) holds only  *)
(* pieces of p.                                                            *)
(***************************************************************************)
C1_WinIffLineCompleted ==
    [][(initialized /\ GRID_SIZE >= 1 /\ gameOver = FALSE) =>
        \A e \in DropEvents :
            (Placed(e) /\ DropEvent(e)) =>
                LET p == pieceOf(e.data)
                IN  (gameOver' /\ message' = getPlayerName(p) \o " wins!")
                        <=> CompletesLine(squares', e, p)]_vars

\* C1 witness: player one has won on the main diagonal of a 3 x 3 grid with
\* no row and no column complete.
C1_DiagonalWinReached ==
    /\ initialized
    /\ GRID_SIZE = 3
    /\ gameOver = TRUE
    /\ message = "Player 1 wins!"
    /\ \A c \in MainDiagonal(3) : OccupiedBy(squares, c, PLAYER_ONE)
    /\ ~RowOrColumnHeldBy(squares, PLAYER_ONE)

(***************************************************************************)
(* C2. A move that is taken on the last empty square ends the game: as a   *)
(* win for the mover if it completes a line, as a draw otherwise.          *)
(***************************************************************************)
C2_LastCellDrawUnlessLine ==
    [][initialized =>
        \A e \in DropEvents :
            (MayMove(e) /\ Placed(e) /\ Full(squares') /\ DropEvent(e)) =>
                LET p == pieceOf(e.data)
                IN  /\ gameOver' = TRUE
                    /\ IF CompletesLine(squares', e, p)
                       THEN message' = getPlayerName(p) \o " wins!"
                       ELSE message' = "Tie game... you both lose!"]_vars

\* C2 witness: a full 3 x 3 board with a tie.
C2_DrawReached ==
    /\ initialized
    /\ GRID_SIZE = 3
    /\ Full(squares)
    /\ gameOver = TRUE
    /\ message = "Tie game... you both lose!"

(***************************************************************************)
(* C3. A move that is refused (the game is over, it is the other player's  *)
(* turn, or the square is taken) changes nothing but the message.          *)
(***************************************************************************)
C3_RejectedMoveChangesOnlyMessage ==
    [][initialized =>
        \A e \in DropEvents :
            (~MayMove(e) /\ DropEvent(e)) =>
                UNCHANGED <<squares, lineSums, turnCount, currentPlayer,
                            victoryFlag, gameOver>>]_vars

\* C3 witness: a move on a taken square has just been refused in mid-game.
C3_RejectionReached ==
    /\ initialized
    /\ gameOver = FALSE
    /\ turnCount >= 2
    /\ message = "That spot is already taken!"

(***************************************************************************)
(* C4. Once the game is over, every move of either player on any square is *)
(* refused with "The game is already over!", and the game stays over until *)
(* the game is reset.                                                      *)
(***************************************************************************)
C4_TerminalUntilReset ==
    [][(initialized /\ gameOver = TRUE) =>
        /\ \A e \in DropEvents :
               DropEvent(e) =>
                   /\ message' = "The game is already over!"
                   /\ UNCHANGED <<squares, turnCount, gameOver>>
        /\ (gameOver' = TRUE \/ ResetClick)]_vars

\* C4 witness: a move has been refused after the end of the game.
C4_RefusedAfterEndReached ==
    /\ initialized
    /\ gameOver = TRUE
    /\ message = "The game is already over!"

(***************************************************************************)
(* C5. A move is taken exactly when the game is not over, the player is    *)
(* the current player and the square is empty; otherwise the message names *)
(* the first reason that applies: game over, then wrong player (naming the *)
(* player whose turn it is), then square taken.                            *)
(***************************************************************************)
C5_AcceptedIffLegalAndReasonPriority ==
    [][initialized =>
        \A e \in DropEvents :
            DropEvent(e) =>
                /\ (Placed(e) /\ turnCount' = turnCount + 1) <=> MayMove(e)
                /\ ~MayMove(e) =>
                       message' =
                           IF gameOver
                           THEN "The game is already over!"
                           ELSE IF pieceOf(e.data) # currentPlayer
                           THEN "HEY! LISTEN! It's "
                                    \o getPlayerName(currentPlayer)
                                    \o "'s turn!"
                           ELSE "That spot is already taken!"]_vars

\* C5 witness: the wrong player has been told whose turn it is, on a board
\* that has taken squares.
C5_NotYourTurnReached ==
    /\ initialized
    /\ gameOver = FALSE
    /\ turnCount >= 1
    /\ currentPlayer = PLAYER_TWO
    /\ message = "HEY! LISTEN! It's Player 2's turn!"

(***************************************************************************)
(* C6, as stated. Short of a reset, a taken square keeps its pieces, and a *)
(* move of the current player on a taken square is refused with "That spot *)
(* is already taken!".                                                     *)
(***************************************************************************)
C6_Original ==
    [][initialized =>
        /\ \A c \in DOMAIN squares :
               squares[c] # <<>> => (squares'[c] = squares[c] \/ ResetClick)
        /\ \A e \in DropEvents :
               (/\ pieceOf(e.data) = currentPlayer
                /\ squares[TargetCell(e)] # <<>>
                /\ DropEvent(e)) =>
                   message' = "That spot is already taken!"]_vars

(***************************************************************************)
(* C6, amended. Short of a reset, a taken square keeps its pieces, and     *)
(* while the game is not over a move of the current player on a taken      *)
(* square is refused with "That spot is already taken!"; once the game is  *)
(* over the message is "The game is already over!" instead.                *)
(***************************************************************************)
C6_PiecesStayAndTakenSpotRefused ==
    [][initialized =>
        /\ \A c \in DOMAIN squares :
               squares[c] # <<>> => (squares'[c] = squares[c] \/ ResetClick)
        /\ \A e \in DropEvents :
               (/\ pieceOf(e.data) = currentPlayer
                /\ squares[TargetCell(e)] # <<>>
                /\ DropEvent(e)) =>
                   /\ UNCHANGED squares
                   /\ message' = IF gameOver
                                 THEN "The game is already over!"
                                 ELSE "That spot is already taken!"]_vars

\* C6 witness: in mid-game, with both players on the board, the current
\* player has been refused a taken square.
C6_TakenSpotRefusedReached ==
    /\ initialized
    /\ gameOver = FALSE
    /\ \E c \in DOMAIN squares : OccupiedBy(squares, c, PLAYER_ONE)
    /\ \E c \in DOMAIN squares : OccupiedBy(squares, c, PLAYER_TWO)
    /\ message = "That spot is already taken!"

\* The state right after a game of grid size n has been set up.
FreshGame(n) ==
    [initialized |-> TRUE, GRID_SIZE |-> n, NUMBER_OF_SQUARES |-> n * n,
     squares |-> [c \in Cells(n) |-> <<>>],
     lineSums |-> [i \in 0..(2 * n + 1) |-> 0],
     message |-> "Player 1 starts the game", gameOver |-> FALSE,
     victoryFlag |-> FALSE, currentPlayer |-> PLAYER_ONE, turnCount |-> 0]

(***************************************************************************)
(* C7. From every state a reset gives the initial state of the same grid   *)
(* size: empty board, 2N+2 zero line sums, turn count 0, player one to     *)
(* move, game not over, no victory, "Player 1 starts the game"; a second   *)
(* reset changes nothing.                                                  *)
(***************************************************************************)
C7_ResetGivesInitialState ==
    [][(initialized /\ ResetClick) =>
        /\ State' = FreshGame(GRID_SIZE)
        /\ resetGame(State') = State']_vars

\* C7 witness: the start state of a 3 x 3 game, which every reset of such
\* a game leads to.
C7_ResetStateReached ==
    /\ initialized
    /\ GRID_SIZE = 3
    /\ State = FreshGame(3)

(***************************************************************************)
(* C8. Right after initialization with a grid size N >= 1 the turn count   *)
(* is 0, player one is to move, the game is not over, the N x N board is   *)
(* empty and there are exactly 2N+2 line sums, all zero.                   *)
(***************************************************************************)
C8_InitialState ==
    [][(~initialized /\ initialized' /\ GRID_SIZE' >= 1) =>
        /\ turnCount' = 0
        /\ currentPlayer' = PLAYER_ONE
        /\ gameOver' = FALSE
        /\ DOMAIN squares' = Cells(GRID_SIZE')
        /\ Cardinality(DOMAIN squares') = GRID_SIZE' * GRID_SIZE'
        /\ \A c \in DOMAIN squares' : squares'[c] = <<>>
        /\ Cardinality(DOMAIN lineSums') = 2 * GRID_SIZE' + 2
        /\ \A i \in DOMAIN lineSums' : lineSums'[i] = 0]_vars

\* C8 witness: a game of the smallest grid size has been initialized and
\* not been played yet.
C8_InitializedReached ==
    /\ initialized
    /\ GRID_SIZE = 1
    /\ turnCount = 0
    /\ message = "Player 1 starts the game"

(***************************************************************************)
(* C9, as stated. Initialization with a grid size below 1 fails: no        *)
(* initialized game of such a size exists.                                 *)
(***************************************************************************)
C9_NoGameBelowSizeOne == initialized = TRUE => GRID_SIZE >= 1

(***************************************************************************)
(* C10. A move that is taken is a move of the current player; if it does   *)
(* not end the game the turn passes to the opponent, if it ends the game   *)
(* the current player stays.  Counted from the last reset, the moves of    *)
(* even number (0, 2, ...) are player one's and the others player two's.   *)
(***************************************************************************)
C10_PlayersAlternate ==
    [][initialized =>
        \A e \in DropEvents :
            (Placed(e) /\ DropEvent(e)) =>
                LET p == pieceOf(e.data)
                IN  /\ p = currentPlayer
                    /\ p = IF turnCount % 2 = 0 THEN PLAYER_ONE ELSE PLAYER_TWO
                    /\ IF gameOver'
                       THEN currentPlayer' = currentPlayer
                       ELSE currentPlayer' = Opponent(p)]_vars

\* C10 witness: three moves have been taken and it is player two's turn.
C10_TurnPassedReached ==
    /\ initialized
    /\ gameOver = FALSE
    /\ turnCount = 3
    /\ currentPlayer = PLAYER_TWO
    /\ message = "Player 2's turn"

(***************************************************************************)
(* The victory lines by their index in lineSums, and what the board shows  *)
(* on them.                                                                *)
(***************************************************************************)

\* The squares of the line whose sum is lineSums[i] on a grid of size n.
LineCells(n, i) ==
    IF i < n THEN Column(n, i)
    ELSE IF i < 2 * n THEN Row(n, i - n)
    ELSE IF i = 2 * n THEN MainDiagonal(n)
    ELSE AntiDiagonal(n)

\* The indices of the 2n + 2 lines of a grid of size n.
LineIndices(n) == 0..(2 * n + 1)

\* Player p holds every square of the line.
HeldBy(sq, line, p) == \A c \in line : OccupiedBy(sq, c, p)

\* The squares that hold a piece.
OccupiedCells(sq) == {c \in DOMAIN sq : sq[c] # <<>>}

\* Player one's pieces minus player two's pieces on a set of squares.
PieceDifference(sq, cells) ==
    Cardinality({c \in cells : OccupiedBy(sq, c, PLAYER_ONE)})
        - Cardinality({c \in cells : OccupiedBy(sq, c, PLAYER_TWO)})

(***************************************************************************)
(* C11. In every state of an initialized game the turn count is the number *)
(* of squares that hold a piece, and it lies in 0 .. N*N.                  *)
(***************************************************************************)
C11_TurnCountIsOccupiedCells ==
    initialized =>
        /\ turnCount = Cardinality(OccupiedCells(squares))
        /\ turnCount >= 0
        /\ turnCount <= GRID_SIZE * GRID_SIZE

\* C11 witness: four pieces are on a 3 x 3 board and a move on a taken
\* square has just been refused.
C11_FourPiecesReached ==
    /\ initialized
    /\ GRID_SIZE = 3
    /\ turnCount = 4
    /\ Cardinality(OccupiedCells(squares)) = 4
    /\ message = "That spot is already taken!"

(***************************************************************************)
(* C12, as stated. For each of the 2N+2 lines, the line's sum is +N        *)
(* exactly when player one holds every square of the line, and -N exactly  *)
(* when player two does.                                                   *)
(***************************************************************************)
C12_Original ==
    (initialized /\ GRID_SIZE >= 1) =>
        \A i \in LineIndices(GRID_SIZE) :
            /\ lineSums[i] = GRID_SIZE
                   <=> HeldBy(squares, LineCells(GRID_SIZE, i), PLAYER_ONE)
            /\ lineSums[i] = 0 - GRID_SIZE
                   <=> HeldBy(squares, LineCells(GRID_SIZE, i), PLAYER_TWO)

(***************************************************************************)
(* C12, amended. For each of the 2N+2 lines, a sum of +N (-N) implies that *)
(* player one (two) holds every square of the line; for the columns and    *)
(* rows the converse holds too.  A diagonal held by a player whose sum is  *)
(* short of +-N exists only once the game is over: the winning move        *)
(* completed another line first and the diagonal's sum was not updated.    *)
(***************************************************************************)
C12_SumOfNMeansLineHeld ==
    (initialized /\ GRID_SIZE >= 1) =>
        \A i \in LineIndices(GRID_SIZE) :
            LET line == LineCells(GRID_SIZE, i)
                isDiagonal == i >= 2 * GRID_SIZE
            IN  /\ lineSums[i] = GRID_SIZE => HeldBy(squares, line, PLAYER_ONE)
                /\ lineSums[i] = 0 - GRID_SIZE
                       => HeldBy(squares, line, PLAYER_TWO)
                /\ (HeldBy(squares, line, PLAYER_ONE)
                        /\ (~isDiagonal \/ gameOver = FALSE))
                       => lineSums[i] = GRID_SIZE
                /\ (HeldBy(squares, line, PLAYER_TWO)
                        /\ (~isDiagonal \/ gameOver = FALSE))
                       => lineSums[i] = 0 - GRID_SIZE

\* C12 witness: on a 3 x 3 grid player two has won with a row whose sum is
\* -3.
C12_RowOfPlayerTwoReached ==
    /\ initialized
    /\ GRID_SIZE = 3
    /\ \E i \in 3..5 :
           /\ lineSums[i] = 0 - 3
           /\ HeldBy(squares, LineCells(3, i), PLAYER_TWO)

(***************************************************************************)
(* C13. On a grid of size N >= 1 the game is over exactly when some line   *)
(* sum has absolute value N (victory) or the turn count is N*N with no     *)
(* line sum of absolute value N (draw).                                    *)
(***************************************************************************)
C13_GameOverIffVictoryOrDraw ==
    (initialized /\ GRID_SIZE >= 1) =>
        LET victory == \E i \in DOMAIN lineSums : abs(lineSums[i]) = GRID_SIZE
            draw == turnCount = GRID_SIZE * GRID_SIZE /\ ~victory
        IN  gameOver = TRUE <=> (victory \/ draw)

\* C13 witness: a drawn 3 x 3 game, over with no line sum of absolute
\* value 3.
C13_DrawWithoutVictoryReached ==
    /\ initialized
    /\ GRID_SIZE = 3
    /\ gameOver = TRUE
    /\ turnCount = 9
    /\ \A i \in DOMAIN lineSums : abs(lineSums[i]) < 3

(***************************************************************************)
(* C14. On a grid of size N >= 1 the table of line sums always has exactly *)
(* 2N+2 entries, each of absolute value at most N.                         *)
(***************************************************************************)
C14_LineSumsBounded ==
    (initialized /\ GRID_SIZE >= 1) =>
        /\ DOMAIN lineSums = LineIndices(GRID_SIZE)
        /\ Cardinality(DOMAIN lineSums) = 2 * GRID_SIZE + 2
        /\ \A i \in DOMAIN lineSums : abs(lineSums[i]) <= GRID_SIZE

\* C14 witness: on a 2 x 2 grid a line sum has reached the bound 2 while
\* another stands at -1.
C14_SumAtBoundReached ==
    /\ initialized
    /\ GRID_SIZE = 2
    /\ \E i \in DOMAIN lineSums : lineSums[i] = 2
    /\ \E i \in DOMAIN lineSums : lineSums[i] = 0 - 1

(***************************************************************************)
(* C15. A move that is taken at (x, y) adds the mover's value to           *)
(* lineSums[x] and to lineSums[N+y]; besides these it changes lineSums[2N] *)
(* only if x = y and lineSums[2N+1] only if x + y = N - 1, and no other    *)
(* entry, so at most four.  For all 0 <= x, y < N the source's test        *)
(* abs(x - (N-1)) = y says the same as x + y = N - 1.                      *)
(***************************************************************************)
C15_MoveChangesOnlyItsLines ==
    [][(initialized /\ GRID_SIZE >= 1) =>
        /\ \A c \in Cells(GRID_SIZE) :
               (abs(c[1] - (GRID_SIZE - 1)) = c[2])
                   <=> (c[1] + c[2] = GRID_SIZE - 1)
        /\ \A e \in DropEvents :
               (Placed(e) /\ DropEvent(e)) =>
                   LET x == e.target.x
                       y == e.target.y
                       n == GRID_SIZE
                       p == pieceOf(e.data)
                       changed == {i \in DOMAIN lineSums :
                                       lineSums'[i] # lineSums[i]}
                   IN  /\ DOMAIN lineSums' = DOMAIN lineSums
                       /\ lineSums'[x] = lineSums[x] + p
                       /\ lineSums'[n + y] = lineSums[n + y] + p
                       /\ Cardinality(changed) <= 4
                       /\ (2 * n) \in changed => x = y
                       /\ (2 * n + 1) \in changed => x + y = n - 1
                       /\ changed \subseteq {x, n + y, 2 * n, 2 * n + 1}
                       /\ \A i \in changed : lineSums'[i] = lineSums[i] + p]_vars

\* C15 witness: the first move of a 3 x 3 game was taken at the centre and
\* changed four sums: column 1, row 1 and both diagonals.
C15_CentreMoveReached ==
    /\ initialized
    /\ GRID_SIZE = 3
    /\ turnCount = 1
    /\ squares[<<1, 1>>] = <<"player-1">>
    /\ lineSums = [i \in 0..7 |-> IF i \in {1, 4, 6, 7} THEN 1 ELSE 0]

(***************************************************************************)
(* C16. In a game of grid size N >= 1 that is never reset, every move that *)
(* is taken raises the turn count by one from a value below N*N, the turn  *)
(* count never passes N*N, and the game is over whenever it has reached    *)
(* N*N; if moves that can be taken keep being taken, the game is           *)
(* eventually over.                                                        *)
(***************************************************************************)
C16_GameEndsWithinNSquaredMoves ==
    /\ [][(initialized /\ GRID_SIZE >= 1) =>
            \A e \in DropEvents :
                (Placed(e) /\ DropEvent(e)) =>
                    /\ turnCount < GRID_SIZE * GRID_SIZE
                    /\ turnCount' = turnCount + 1]_vars
    /\ []((initialized /\ GRID_SIZE >= 1) =>
            /\ turnCount <= GRID_SIZE * GRID_SIZE
            /\ turnCount = GRID_SIZE * GRID_SIZE => gameOver = TRUE)
    /\ (initialized /\ GRID_SIZE >= 1) ~> (initialized /\ gameOver = TRUE)

\* C16 witness: a 3 x 3 game that was never reset is over after all nine
\* moves.
C16_NineMovesReached ==
    /\ initialized
    /\ GRID_SIZE = 3
    /\ turnCount = 9
    /\ gameOver = TRUE

(***************************************************************************)
(* C17. On a grid of size N >= 1 every column sum and every row sum is     *)
(* player one's pieces minus player two's pieces on that line, in every    *)
(* state; the two diagonal sums are so in every state where the game is    *)
(* not over.  (A diagonal sum falls behind only with the move that ends    *)
(* the game.)                                                              *)
(***************************************************************************)
C17_SumsArePieceDifferences ==
    (initialized /\ GRID_SIZE >= 1) =>
        /\ \A i \in 0..(2 * GRID_SIZE - 1) :
               lineSums[i] = PieceDifference(squares, LineCells(GRID_SIZE, i))
        /\ gameOver = FALSE =>
               \A i \in {2 * GRID_SIZE, 2 * GRID_SIZE + 1} :
                   lineSums[i]
                       = PieceDifference(squares, LineCells(GRID_SIZE, i))

\* C17 witness: a 3 x 3 game is over and the sum of the main diagonal is
\* behind the pieces on it, while all column and row sums are exact.
C17_DiagonalLagReached ==
    /\ initialized
    /\ GRID_SIZE = 3
    /\ gameOver = TRUE
    /\ lineSums[6] # PieceDifference(squares, MainDiagonal(3))
    /\ \A i \in 0..5 : lineSums[i] = PieceDifference(squares, LineCells(3, i))

(***************************************************************************)
(* C18. Player one's pieces minus player two's pieces on the board is 0 or *)
(* 1 in every state; while the game is not over it is player one's turn    *)
(* exactly when it is 0 (the turn count is even) and player two's turn     *)
(* exactly when it is 1 (the turn count is odd).                           *)
(***************************************************************************)
C18_PieceCountsDecideTurn ==
    initialized =>
        LET diff == PieceDifference(squares, DOMAIN squares)
        IN  /\ diff \in {0, 1}
            /\ gameOver = FALSE =>
                   /\ currentPlayer \in {PLAYER_ONE, PLAYER_TWO}
                   /\ currentPlayer = PLAYER_ONE
                          <=> (diff = 0 /\ turnCount % 2 = 0)
                   /\ currentPlayer = PLAYER_TWO
                          <=> (diff = 1 /\ turnCount % 2 = 1)

\* C18 witness: in mid-game player one has two pieces, player two one, and
\* it is player two's turn.
C18_PlayerTwoToMoveReached ==
    /\ initialized
    /\ gameOver = FALSE
    /\ turnCount = 3
    /\ currentPlayer = PLAYER_TWO
    /\ PieceDifference(squares, DOMAIN squares) = 1

\* Some line of the grid is held by player p alone.
HoldsSomeLine(sq, n, p) ==
    \E i \in LineIndices(n) : HeldBy(sq, LineCells(n, i), p)

(***************************************************************************)
(* C19. On a grid of size N >= 1 no state has a line held by player one    *)
(* together with a line held by player two, and while the game is not over *)
(* no line is held by either player.                                       *)
(***************************************************************************)
C19_AtMostOneWinner ==
    (initialized /\ GRID_SIZE >= 1) =>
        /\ ~(/\ HoldsSomeLine(squares, GRID_SIZE, PLAYER_ONE)
             /\ HoldsSomeLine(squares, GRID_SIZE, PLAYER_TWO))
        /\ gameOver = FALSE =>
               /\ ~HoldsSomeLine(squares, GRID_SIZE, PLAYER_ONE)
               /\ ~HoldsSomeLine(squares, GRID_SIZE, PLAYER_TWO)

\* C19 witness: player two has completed a line on a 3 x 3 grid, player one
\* holds none, and the game is over.
C19_PlayerTwoWinsReached ==
    /\ initialized
    /\ GRID_SIZE = 3
    /\ gameOver = TRUE
    /\ message = "Player 2 wins!"
    /\ HoldsSomeLine(squares, 3, PLAYER_TWO)
    /\ ~HoldsSomeLine(squares, 3, PLAYER_ONE)

(***************************************************************************)
(* C20. Once the game is initialized, a call of initTicTacToe with any     *)
(* grid size leaves every global as it was: it neither resizes nor         *)
(* restarts the game.                                                      *)
(***************************************************************************)
C20_SecondInitChangesNothing ==
    initialized =>
        \A gridSize \in GridSizeArgs : initTicTacToe(State, gridSize) = State

\* C20 witness: a 2 x 2 game in progress, in which a call with another grid
\* size or the same one would have to restart or resize the game to have
\* any effect.
C20_GameInProgressReached ==
    /\ initialized
    /\ GRID_SIZE = 2
    /\ turnCount = 2
    /\ gameOver = FALSE
    /\ message = "Player 1's turn"

====
